---- MODULE Spec2Model ----
(***************************************************************************)
(* The shard-constrained HD key search of hdKeysGenerator:                 *)
(* generateKeys -> generateKeysInParallel -> inlineSortKeysByIndexes       *)
(* (src/hdKeysGenerator/main.go).  The coordinator loops over iterations;  *)
(* every iteration creates numTasks tasks, runs them as goroutines of an   *)
(* errgroup, waits for all of them, gathers their slots and advances the   *)
(* sliding index.  After the loop the accumulator is sorted with           *)
(* sort.Slice and cut to numKeys by generateKeys.                          *)
(*                                                                         *)
(* createTasks, generatorTask.doGenerateKeys, newConstraints and the       *)
(* constraints predicate are code of the repository that is not among the  *)
(* source files; they are modelled from the specification (sections 3,     *)
(* 4.1, 4.2, 4.3).                                                         *)
(***************************************************************************)
EXTENDS Integers, Sequences, FiniteSets, TLC

\* ------------------------------------------------------------------ bounds
MaxKeys == 3
MaxTasks == 2
MaxIndex == 8

\* The inputs the command line can give, drawn from small sets.
StartIndexes == {0, 1}
TaskWidths == {1, 2}
ShardCounts == {1, 2}
\* A shard id is a number; an optional shard is the empty set or a singleton.
ShardIds == 0 .. 2
OptionalShards == {{}} \cup {{s} : s \in ShardIds}

\* ------------------------------------------------------------------- state
VARIABLES
    cliFlags,             \* parsedCliFlags: the parameters of the run
    taskWidth,            \* the fixed number of indexes one task checks
    pc,                   \* where the coordinator (generateKeys) stands
    constraints,          \* the constraints built by newConstraints
    allGeneratedKeys,     \* the accumulator of generateKeysInParallel
    slidingIndex,         \* the next unscanned index
    newSlidingIndex,      \* second result of createTasks
    tasks,                \* the tasks of the current iteration
    workers,              \* the goroutines of the current iteration
    generatedKeysByTask,  \* one slot per task of the current iteration
    groupErr,             \* the errgroup's first error
    generatedKeys,        \* what generateKeysInParallel returned to generateKeys
    returnedErr,          \* the error generateKeys returns
    exported,             \* what was handed to exporter.ExportKeys
    derivations,          \* history: how often each index was derived
    ranges,               \* history: every task range ever created
    finishOrder,          \* history: the tasks of the last iteration, in the order they ended
    ctxDone,              \* the ctx given to generateKeysInParallel was cancelled
    tokens,               \* groupTokensByIntervals: the argument, token -> nonces
    sortedTokens          \* groupTokensByIntervals: the result, token -> intervals

vars == << cliFlags, taskWidth, pc, constraints, allGeneratedKeys, slidingIndex,
           newSlidingIndex, tasks, workers, generatedKeysByTask, groupErr,
           generatedKeys, returnedErr, exported, derivations, ranges, finishOrder,
           ctxDone, tokens, sortedTokens >>

\* ------------------------------------------------------------------ values
NilErr == [kind |-> "nil", at |-> 0]
ConfigurationError == [kind |-> "ConfigurationError", at |-> 0]
DerivationError(i) == [kind |-> "DerivationError", at |-> i]

\* A slot of generatedKeysByTask nobody wrote yet (a nil slice).
NilSlice == << >>

NotExported == [called |-> FALSE, keys |-> << >>]
Exported(keys) == [called |-> TRUE, keys |-> keys]

\* -------------------------------------------------------- key derivation
\* The derivation index pair of linear index i.
AddressesPerAccount == 2
IndexPair(i, useAccountIndex) ==
    IF useAccountIndex
    THEN [accountIndex |-> i, addressIndex |-> 0]
    ELSE [accountIndex |-> i \div AddressesPerAccount,
          addressIndex |-> i % AddressesPerAccount]

\* The pluggable shard assignment of a derived key.
ActualShardOf(key, numShards) ==
    (key.accountIndex + key.addressIndex) % numShards
ProjectedShardOf(key, numShards) ==
    ((key.accountIndex + key.addressIndex) \div 2) % numShards

\* ---------------------------------------------------------- constraints
\* newConstraints: the constraints, or an error when a shard is out of range.
ConstraintsValid(numShards, actualShard, projectedShard) ==
    /\ numShards >= 1
    /\ \A s \in actualShard : s < numShards
    /\ \A s \in projectedShard : s < numShards

newConstraints(numShards, actualShard, projectedShard) ==
    [value |-> [numShards |-> numShards, actualShard |-> actualShard,
                projectedShard |-> projectedShard],
     err |-> IF ConstraintsValid(numShards, actualShard, projectedShard)
             THEN NilErr ELSE ConfigurationError]

NoConstraints == [numShards |-> 0, actualShard |-> {}, projectedShard |-> {}]

\* ConstraintEvaluator: an absent shard leaves its axis unconstrained.
Satisfies(key, c) ==
    /\ \A s \in c.actualShard : ActualShardOf(key, c.numShards) = s
    /\ \A s \in c.projectedShard : ProjectedShardOf(key, c.numShards) = s

\* ----------------------------------------------------------- createTasks
RECURSIVE TasksFrom(_, _, _, _)
TasksFrom(n, from, width, useAccountIndex) ==
    IF n <= 0 THEN << >>
    ELSE << [firstIndex |-> from, lastIndex |-> from + width,
             useAccountIndex |-> useAccountIndex] >>
         \o TasksFrom(n - 1, from + width, width, useAccountIndex)

createTasks(numTasks, from, width, useAccountIndex) ==
    [tasks |-> TasksFrom(numTasks, from, width, useAccountIndex),
     newSlidingIndex |-> from + (IF numTasks > 0 THEN numTasks * width ELSE 0)]

\* -------------------------------------------- generatorTask.doGenerateKeys
\* One index of a task's range: the key is derived and kept when it satisfies
\* the constraints.
ScanIndexKeepAll(keys, i, useAccountIndex, c) ==
    Append(keys, IndexPair(i, useAccountIndex))

ScanIndex(keys, i, useAccountIndex, c) ==
    IF Satisfies(IndexPair(i, useAccountIndex), c)
    THEN Append(keys, IndexPair(i, useAccountIndex))
    ELSE keys

\* ------------------------------------------------- inlineSortKeysByIndexes
\* The comparator handed to sort.Slice (main.go:173-185).
less(a, b) ==
    IF a.accountIndex < b.accountIndex THEN TRUE
    ELSE IF a.addressIndex < b.addressIndex THEN TRUE
    ELSE FALSE

Swap(s, i, j) == [s EXCEPT ![i] = s[j], ![j] = s[i]]

\* sort.Slice on at most 12 elements (go 1.17, sort/zfuncversion.go
\* quickSort_func): one ShellSort pass with gap 6, then insertion sort.  For
\* up to 6 elements this is plain insertion sort, as in later releases.
RECURSIVE ShellPass(_, _)
ShellPass(s, i) ==
    IF i > Len(s) THEN s
    ELSE ShellPass(IF less(s[i], s[i - 6]) THEN Swap(s, i, i - 6) ELSE s, i + 1)

RECURSIVE InsertDown(_, _)
InsertDown(s, j) ==
    IF j > 1 /\ less(s[j], s[j - 1])
    THEN InsertDown(Swap(s, j, j - 1), j - 1)
    ELSE s

RECURSIVE InsertionSort(_, _)
InsertionSort(s, i) ==
    IF i > Len(s) THEN s ELSE InsertionSort(InsertDown(s, i), i + 1)

inlineSortKeysByIndexes(keys) ==
    IF Len(keys) > 1 THEN InsertionSort(ShellPass(keys, 7), 2) ELSE keys

\* ------------------------------------------- generateKeysInParallel, pieces
LoopConditionOffByOne(all, numKeys) == Len(all) <= numKeys

\* main.go:131, the loop condition.
LoopCondition(all, numKeys) == Len(all) < numKeys

\* The goroutines share the loop variable: all of them store into the last slot.
WriteSlotSharedIndex(byTask, i, keys) == [byTask EXCEPT ![Len(byTask)] = keys]

\* main.go:147, a task's goroutine stores its keys in its own slot.
WriteSlot(byTask, i, keys) == [byTask EXCEPT ![i] = keys]

\* The result of append is dropped.
GatherNothing(all, byTask) == all

\* main.go:159-161, the slots are appended in task order.
RECURSIVE Concat(_)
Concat(ss) == IF ss = << >> THEN << >> ELSE Head(ss) \o Concat(Tail(ss))

Gather(all, byTask) == all \o Concat(byTask)

NextSlidingIndexStuck(sliding, newSliding) == sliding

\* main.go:163
NextSlidingIndex(sliding, newSliding) == newSliding

KeysOnErrorPartial(all) == all

\* main.go:155, the keys returned together with an error.
KeysOnError(all) == << >>

ConstraintsAcceptedAlways(err) == TRUE

\* main.go:52, generateKeys goes on only when newConstraints gave no error.
ConstraintsAccepted(err) == err = NilErr

TruncateNothing(keys, numKeys) == keys

\* main.go:77
Truncate(keys, numKeys) == SubSeq(keys, 1, numKeys)

\* -------------------------------------------------------------------- Init
Flags ==
    [numShards : ShardCounts, actualShard : OptionalShards,
     projectedShard : OptionalShards, startIndex : StartIndexes,
     numKeys : 0 .. MaxKeys, numTasks : 0 .. MaxTasks,
     useAccountIndex : BOOLEAN]

\* The state of a run before generateKeys has done anything.
SearchIdle ==
    /\ pc = "start"
    /\ constraints = NoConstraints
    /\ allGeneratedKeys = << >>
    /\ slidingIndex = 0
    /\ newSlidingIndex = 0
    /\ tasks = << >>
    /\ workers = << >>
    /\ generatedKeysByTask = << >>
    /\ groupErr = NilErr
    /\ generatedKeys = << >>
    /\ returnedErr = NilErr
    /\ exported = NotExported
    /\ derivations = [i \in 0 .. MaxIndex |-> 0]
    /\ ranges = << >>
    /\ finishOrder = << >>
    /\ ctxDone = FALSE

NotGrouped == [t \in {} |-> << >>]

Init ==
    /\ cliFlags \in Flags
    /\ taskWidth \in TaskWidths
    /\ SearchIdle
    /\ tokens = NotGrouped
    /\ sortedTokens = NotGrouped

\* ----------------------------------------------------------------- actions
\* generateKeys up to the call of generateKeysInParallel (main.go:49-72) and
\* the locals of generateKeysInParallel (main.go:115-119).
GenerateKeysStart ==
    /\ pc = "start"
    /\ LET made == newConstraints(cliFlags.numShards, cliFlags.actualShard,
                                  cliFlags.projectedShard)
       IN  IF ConstraintsAccepted(made.err)
           THEN /\ constraints' = made.value
                /\ slidingIndex' = cliFlags.startIndex
                /\ pc' = "loop"
                /\ UNCHANGED returnedErr
           ELSE /\ returnedErr' = made.err
                /\ pc' = "configError"
                /\ UNCHANGED << constraints, slidingIndex >>
    /\ allGeneratedKeys' = << >>
    /\ UNCHANGED << cliFlags, taskWidth, newSlidingIndex, tasks, workers,
                    generatedKeysByTask, groupErr, generatedKeys, exported,
                    derivations, ranges, finishOrder,
                    ctxDone, tokens, sortedTokens >>

\* One pass through the head of the loop (main.go:131-150): the tasks are
\* created and one goroutine per task is started.
StartIteration ==
    /\ pc = "loop"
    /\ LoopCondition(allGeneratedKeys, cliFlags.numKeys)
    /\ slidingIndex + cliFlags.numTasks * taskWidth <= MaxIndex
    /\ LET made == createTasks(cliFlags.numTasks, slidingIndex, taskWidth,
                               cliFlags.useAccountIndex)
       IN  /\ tasks' = made.tasks
           /\ newSlidingIndex' = made.newSlidingIndex
           /\ generatedKeysByTask' = [i \in 1 .. cliFlags.numTasks |-> NilSlice]
           /\ workers' = [i \in 1 .. Len(made.tasks) |->
                            [status |-> "running", cur |-> made.tasks[i].firstIndex,
                             keys |-> << >>, err |-> NilErr]]
           /\ ranges' = ranges \o [i \in 1 .. Len(made.tasks) |->
                            << made.tasks[i].firstIndex, made.tasks[i].lastIndex >>]
    /\ groupErr' = NilErr
    /\ pc' = "wait"
    /\ finishOrder' = << >>
    /\ UNCHANGED << cliFlags, taskWidth, constraints, allGeneratedKeys,
                    slidingIndex, generatedKeys, returnedErr, exported,
                    derivations,
                    ctxDone, tokens, sortedTokens >>

\* doGenerateKeys of task w derives and checks its next index.
WorkerScan(w) ==
    /\ pc = "wait"
    /\ w \in DOMAIN workers
    /\ workers[w].status = "running"
    /\ workers[w].cur < tasks[w].lastIndex
    /\ workers' = [workers EXCEPT
                     ![w].keys = ScanIndex(@, workers[w].cur,
                                           tasks[w].useAccountIndex, constraints),
                     ![w].cur = @ + 1]
    /\ derivations' = [derivations EXCEPT ![workers[w].cur] = @ + 1]
    /\ UNCHANGED << cliFlags, taskWidth, pc, constraints, allGeneratedKeys,
                    slidingIndex, newSlidingIndex, tasks, generatedKeysByTask,
                    groupErr, generatedKeys, returnedErr, exported, ranges, finishOrder,
                    ctxDone, tokens, sortedTokens >>

\* The derivation of task w's next index fails: doGenerateKeys returns the
\* error and the errgroup keeps it when it is the first (main.go:142-145).
\* Whether an index fails is an input (the seed, the deriver); every index is
\* derived at most once, so the choice is made where the index is reached.
\* The other goroutines run on: the group's context is dropped at main.go:135.
WorkerFail(w) ==
    /\ pc = "wait"
    /\ w \in DOMAIN workers
    /\ workers[w].status = "running"
    /\ workers[w].cur < tasks[w].lastIndex
    /\ workers' = [workers EXCEPT ![w].status = "failed",
                                  ![w].err = DerivationError(workers[w].cur)]
    /\ groupErr' = IF groupErr = NilErr
                   THEN DerivationError(workers[w].cur) ELSE groupErr
    /\ derivations' = [derivations EXCEPT ![workers[w].cur] = @ + 1]
    /\ finishOrder' = Append(finishOrder, w)
    /\ UNCHANGED << cliFlags, taskWidth, pc, constraints, allGeneratedKeys,
                    slidingIndex, newSlidingIndex, tasks, generatedKeysByTask,
                    generatedKeys, returnedErr, exported, ranges,
                    ctxDone, tokens, sortedTokens >>

\* doGenerateKeys of task w returned its keys: the goroutine stores them
\* (main.go:147-148).
WorkerReturn(w) ==
    /\ pc = "wait"
    /\ w \in DOMAIN workers
    /\ workers[w].status = "running"
    /\ workers[w].cur >= tasks[w].lastIndex
    /\ generatedKeysByTask' = WriteSlot(generatedKeysByTask, w, workers[w].keys)
    /\ workers' = [workers EXCEPT ![w].status = "returned"]
    /\ finishOrder' = Append(finishOrder, w)
    /\ UNCHANGED << cliFlags, taskWidth, pc, constraints, allGeneratedKeys,
                    slidingIndex, newSlidingIndex, tasks, groupErr,
                    generatedKeys, returnedErr, exported, derivations, ranges,
                    ctxDone, tokens, sortedTokens >>

\* Wait that returns as soon as one goroutine has ended.
AllJoinedFirstOnly ==
    workers = << >> \/ \E w \in DOMAIN workers : workers[w].status # "running"

\* errs.Wait() returns when every goroutine of the group has ended (main.go:153).
AllJoined == \A w \in DOMAIN workers : workers[w].status # "running"

\* errs.Wait() returned nil: the slots are gathered and the sliding index
\* moves on (main.go:153-165).
JoinOk ==
    /\ pc = "wait"
    /\ AllJoined
    /\ groupErr = NilErr
    /\ allGeneratedKeys' = Gather(allGeneratedKeys, generatedKeysByTask)
    /\ slidingIndex' = NextSlidingIndex(slidingIndex, newSlidingIndex)
    /\ tasks' = << >>
    /\ workers' = << >>
    /\ generatedKeysByTask' = << >>
    /\ pc' = "loop"
    /\ UNCHANGED << cliFlags, taskWidth, constraints, newSlidingIndex, groupErr,
                    generatedKeys, returnedErr, exported, derivations, ranges, finishOrder,
                    ctxDone, tokens, sortedTokens >>

\* errs.Wait() returned an error: generateKeysInParallel returns (nil, err)
\* and generateKeys returns err (main.go:153-156, 73-75).
JoinErr ==
    /\ pc = "wait"
    /\ AllJoined
    /\ groupErr # NilErr
    /\ generatedKeys' = KeysOnError(allGeneratedKeys)
    /\ returnedErr' = groupErr
    /\ pc' = "failed"
    /\ UNCHANGED << cliFlags, taskWidth, constraints, allGeneratedKeys,
                    slidingIndex, newSlidingIndex, tasks, workers,
                    generatedKeysByTask, groupErr, exported, derivations,
                    ranges, finishOrder,
                    ctxDone, tokens, sortedTokens >>

\* The loop ends: the accumulator is sorted in place and returned
\* (main.go:131, 168-169); generateKeys cuts it and exports it (main.go:77-85).
Finish ==
    /\ pc = "loop"
    /\ ~ LoopCondition(allGeneratedKeys, cliFlags.numKeys)
    /\ allGeneratedKeys' = inlineSortKeysByIndexes(allGeneratedKeys)
    /\ generatedKeys' = Truncate(inlineSortKeysByIndexes(allGeneratedKeys),
                                 cliFlags.numKeys)
    /\ exported' = Exported(Truncate(inlineSortKeysByIndexes(allGeneratedKeys),
                                     cliFlags.numKeys))
    /\ pc' = "done"
    /\ UNCHANGED << cliFlags, taskWidth, constraints, slidingIndex,
                    newSlidingIndex, tasks, workers, generatedKeysByTask,
                    groupErr, returnedErr, derivations, ranges, finishOrder,
                    ctxDone, tokens, sortedTokens >>

\* The caller cancels the ctx it gave to generateKeysInParallel while the
\* search scans.  generateKeys passes context.Background(), which is never
\* cancelled (main.go:72); this step belongs to callers with a context of
\* their own.  Nothing reads the context: it only goes into
\* errgroup.WithContext, whose derived context is dropped (main.go:135).
CancelCtx ==
    /\ pc \in {"loop", "wait"}
    /\ ~ ctxDone
    /\ ctxDone' = TRUE
    /\ UNCHANGED << cliFlags, taskWidth, pc, constraints, allGeneratedKeys,
                    slidingIndex, newSlidingIndex, tasks, workers,
                    generatedKeysByTask, groupErr, generatedKeys, returnedErr,
                    exported, derivations, ranges, finishOrder, tokens,
                    sortedTokens >>

Next ==
    \/ GenerateKeysStart
    \/ StartIteration
    \/ \E w \in 1 .. MaxTasks : WorkerScan(w)
    \/ \E w \in 1 .. MaxTasks : WorkerFail(w)
    \/ \E w \in 1 .. MaxTasks : WorkerReturn(w)
    \/ JoinOk
    \/ JoinErr
    \/ Finish

Spec == Init /\ [][Next]_vars

\* The Go scheduler lets the coordinator and every goroutine that can run
\* take its next step; whether a derivation fails is not up to the scheduler.
FairSpec ==
    /\ Spec
    /\ WF_vars(GenerateKeysStart \/ StartIteration \/ JoinOk \/ JoinErr \/ Finish)
    /\ \A w \in 1 .. MaxTasks : WF_vars(WorkerScan(w) \/ WorkerReturn(w))

\* The search under a caller that may cancel its context.
NextCancel ==
    \/ Next
    \/ CancelCtx

SpecCancel == Init /\ [][NextCancel]_vars

\* -------------------------------------------------- groupTokensByIntervals
\* metaDataRemover's groupTokensByIntervals is known by its test only
\* (TestGroupTokensByIntervals): the nonces of a token, ascending, are grouped
\* into intervals of consecutive nonces.
MaxNonce == 4
TokenNames == {"token1", "token2"}

\* The argument and the expected result of TestGroupTokensByIntervals.
TestTokens ==
    [token1 |-> << 1, 2, 3, 8, 9, 10 >>,
     token2 |-> << 1 >>,
     token3 |-> << 3, 9 >>,
     token4 |-> << 11, 12 >>,
     token5 |-> << 10, 100, 101, 102, 111 >>,
     token6 |-> << 4, 5, 6, 7 >>]

interval(s, e) == [start |-> s, end |-> e]

TestSortedTokens ==
    [token1 |-> << interval(1, 3), interval(8, 10) >>,
     token2 |-> << interval(1, 1) >>,
     token3 |-> << interval(3, 3), interval(9, 9) >>,
     token4 |-> << interval(11, 12) >>,
     token5 |-> << interval(10, 10), interval(100, 102), interval(111, 111) >>,
     token6 |-> << interval(4, 7) >>]

MinOf(S) == CHOOSE m \in S : \A n \in S : m <= n

RECURSIVE Ascending(_)
Ascending(S) ==
    IF S = {} THEN << >> ELSE << MinOf(S) >> \o Ascending(S \ {MinOf(S)})

\* The nonce lists the arguments are drawn from: ascending, not empty.
NonceLists == {Ascending(S) : S \in (SUBSET (1 .. MaxNonce)) \ {{}}}

GroupInputs == [TokenNames -> NonceLists] \cup {TestTokens}

EndsIntervalLoose(nonce, nextNonce) == nextNonce - nonce >= 1

\* The interval that holds nonce ends there when the next nonce does not follow it.
EndsInterval(nonce, nextNonce) == nextNonce - nonce > 1

\* One pass over the nonces; start is the position the open interval began at.
RECURSIVE GroupFrom(_, _, _)
GroupFrom(nonces, idx, start) ==
    IF idx > Len(nonces) THEN << >>
    ELSE IF idx = Len(nonces)
         THEN << interval(nonces[start], nonces[idx]) >>
         ELSE IF EndsInterval(nonces[idx], nonces[idx + 1])
              THEN << interval(nonces[start], nonces[idx]) >>
                   \o GroupFrom(nonces, idx + 1, idx + 1)
              ELSE GroupFrom(nonces, idx + 1, start)

groupTokensByIntervals(toks) ==
    [t \in DOMAIN toks |-> GroupFrom(toks[t], 1, 1)]

\* The search plays no part in this specification.
IdleFlags ==
    [numShards |-> 1, actualShard |-> {}, projectedShard |-> {}, startIndex |-> 0,
     numKeys |-> 0, numTasks |-> 0, useAccountIndex |-> FALSE]

InitGroup ==
    /\ cliFlags = IdleFlags
    /\ taskWidth = 1
    /\ SearchIdle
    /\ tokens \in GroupInputs
    /\ sortedTokens = NotGrouped

\* sortedTokens := groupTokensByIntervals(tokens)
GroupTokens ==
    /\ sortedTokens = NotGrouped
    /\ tokens # NotGrouped
    /\ sortedTokens' = groupTokensByIntervals(tokens)
    /\ UNCHANGED << cliFlags, taskWidth, pc, constraints, allGeneratedKeys,
                    slidingIndex, newSlidingIndex, tasks, workers,
                    generatedKeysByTask, groupErr, generatedKeys, returnedErr,
                    exported, derivations, ranges, finishOrder, ctxDone, tokens >>

SpecGroup == InitGroup /\ [][GroupTokens]_vars

\* ------------------------------------------------------ reference notions
\* The placement predicate, stated on the command line's flags.
KeyMeetsFlags(k) ==
    /\ cliFlags.actualShard = {} \/
         ActualShardOf(k, cliFlags.numShards) \in cliFlags.actualShard
    /\ cliFlags.projectedShard = {} \/
         ProjectedShardOf(k, cliFlags.numShards) \in cliFlags.projectedShard

FlagsInconsistent ==
    \/ \E s \in cliFlags.actualShard : s >= cliFlags.numShards
    \/ \E s \in cliFlags.projectedShard : s >= cliFlags.numShards

\* The keys of the indexes lo .. hi-1 that meet the flags, in index order.
RECURSIVE MatchesIn(_, _)
MatchesIn(lo, hi) ==
    IF lo >= hi THEN << >>
    ELSE (IF KeyMeetsFlags(IndexPair(lo, cliFlags.useAccountIndex))
          THEN << IndexPair(lo, cliFlags.useAccountIndex) >> ELSE << >>)
         \o MatchesIn(lo + 1, hi)

LexLeq(a, b) ==
    \/ a.accountIndex < b.accountIndex
    \/ a.accountIndex = b.accountIndex /\ a.addressIndex <= b.addressIndex

BatchSize == cliFlags.numTasks * taskWidth

\* The search run by one thread, iteration after iteration.
RECURSIVE SequentialSearch(_, _)
SequentialSearch(acc, sliding) ==
    IF Len(acc) >= cliFlags.numKeys
    THEN SubSeq(inlineSortKeysByIndexes(acc), 1, cliFlags.numKeys)
    ELSE SequentialSearch(acc \o MatchesIn(sliding, sliding + BatchSize),
                          sliding + BatchSize)

NoDerivation == \A i \in DOMAIN derivations : derivations[i] = 0

FailedWorkers == {w \in DOMAIN workers : workers[w].status = "failed"}

\* ------------------------------------------------------------------ claims
\* C1: whenever the search returns successfully, the number of keys handed to
\* the exporter equals numKeys exactly, and keys are handed to the exporter
\* only then.
C1_ExactCount ==
    /\ pc = "done" => exported.called /\ Len(exported.keys) = cliFlags.numKeys
    /\ exported.called => pc = "done"

\* The terminating iteration found surplus matches.
C1_Witness ==
    /\ pc = "done"
    /\ cliFlags.numKeys > 0
    /\ Len(allGeneratedKeys) > cliFlags.numKeys + 1

\* C2: every key of the accumulator, and so every returned and exported key,
\* meets the placement predicate; an absent shard constrains nothing.
C2_AllSatisfy ==
    /\ \A n \in DOMAIN allGeneratedKeys : KeyMeetsFlags(allGeneratedKeys[n])
    /\ \A n \in DOMAIN generatedKeys : KeyMeetsFlags(generatedKeys[n])
    /\ \A n \in DOMAIN exported.keys : KeyMeetsFlags(exported.keys[n])

\* A finished search with both axes constrained that scanned and rejected an index.
C2_Witness ==
    /\ pc = "done"
    /\ cliFlags.actualShard # {} /\ cliFlags.projectedShard # {}
    /\ Len(exported.keys) >= 1
    /\ \E i \in DOMAIN derivations :
         /\ derivations[i] > 0
         /\ ~ KeyMeetsFlags(IndexPair(i, cliFlags.useAccountIndex))

\* C3: the result of a successful search holds no index pair twice.
C3_NoDuplicates ==
    pc = "done" =>
        \A m, n \in DOMAIN exported.keys :
            m # n => exported.keys[m] # exported.keys[n]

\* A finished search of two or more iterations of two tasks.
C3_Witness ==
    /\ pc = "done"
    /\ cliFlags.numTasks >= 2
    /\ slidingIndex >= cliFlags.startIndex + 2 * BatchSize
    /\ Len(exported.keys) >= 3

\* C4: the result of a successful search is sorted by (accountIndex,
\* addressIndex) ascending in the lexicographic order.
C4_SortedLex ==
    pc = "done" =>
        \A n \in 1 .. Len(exported.keys) - 1 :
            LexLeq(exported.keys[n], exported.keys[n + 1])

\* C5: the returned keys are the keys of the first numKeys indexes at or after
\* startIndex that meet the predicate, in that order.
C5_FirstMatches ==
    pc = "done" =>
        /\ Len(MatchesIn(cliFlags.startIndex, slidingIndex)) >= cliFlags.numKeys
        /\ exported.keys =
             SubSeq(MatchesIn(cliFlags.startIndex, slidingIndex), 1, cliFlags.numKeys)

\* C6: the output of a successful search is the output of the sequential
\* search on the same inputs, whatever the interleaving and the order in
\* which the tasks of an iteration ended.
C6_Deterministic ==
    pc = "done" =>
        exported.keys = SequentialSearch(<< >>, cliFlags.startIndex)

\* A finished search whose last iteration had task 2 end before task 1.
C6_Witness ==
    /\ pc = "done"
    /\ Len(finishOrder) >= 2 /\ finishOrder[1] = 2 /\ finishOrder[2] = 1
    /\ Len(exported.keys) >= 2

\* C7: the ranges handed to the tasks tile [startIndex, ...) with equal widths
\* and no gap or overlap; a batch has numTasks ranges and moves the sliding
\* index by numTasks * taskWidth; between iterations the ranges cover exactly
\* [startIndex, slidingIndex) and every index of it was derived exactly once.
C7_Partition ==
    /\ \A k \in DOMAIN ranges :
         /\ ranges[k][1] = cliFlags.startIndex + (k - 1) * taskWidth
         /\ ranges[k][2] = ranges[k][1] + taskWidth
    /\ \A i \in DOMAIN derivations : derivations[i] <= 1
    /\ pc = "wait" =>
         /\ Len(tasks) = cliFlags.numTasks
         /\ newSlidingIndex = slidingIndex + BatchSize
         /\ Len(ranges) * taskWidth = newSlidingIndex - cliFlags.startIndex
         /\ \A w \in DOMAIN tasks :
              /\ tasks[w].firstIndex = slidingIndex + (w - 1) * taskWidth
              /\ tasks[w].lastIndex = tasks[w].firstIndex + taskWidth
    /\ pc \in {"loop", "done"} =>
         /\ Len(ranges) * taskWidth = slidingIndex - cliFlags.startIndex
         /\ \A i \in DOMAIN derivations :
              derivations[i] = IF cliFlags.startIndex <= i /\ i < slidingIndex
                               THEN 1 ELSE 0

\* Two iterations of two tasks were joined.
C7_Witness ==
    /\ pc = "loop"
    /\ cliFlags.numTasks >= 2
    /\ cliFlags.startIndex > 0
    /\ slidingIndex = cliFlags.startIndex + 2 * BatchSize

\* C8: when a task of an iteration fails the search ends failed; a failed
\* search returns an error raised by a task of that iteration, returns no
\* keys and hands nothing to the exporter.
C8_FailFastNoPartial ==
    /\ [](pc = "failed" =>
            /\ generatedKeys = << >>
            /\ ~ exported.called
            /\ returnedErr # NilErr
            /\ \E w \in FailedWorkers : workers[w].err = returnedErr)
    /\ [][(pc = "wait" /\ FailedWorkers # {}) => pc' \in {"wait", "failed"}]_vars

\* A failed search with matches of earlier iterations and of another task of
\* the failing iteration.
C8_Witness ==
    /\ pc = "failed"
    /\ allGeneratedKeys # << >>
    /\ \E w \in DOMAIN workers :
         workers[w].status = "returned" /\ generatedKeysByTask[w] # << >>

\* C9: with a shard constraint not below numShards the run ends with a
\* ConfigurationError; no task is created, no goroutine started and no key
\* derived.
C9_ConfigErrorFirst ==
    FlagsInconsistent =>
        /\ pc \in {"start", "configError"}
        /\ pc = "configError" => returnedErr = ConfigurationError
        /\ NoDerivation
        /\ workers = << >> /\ ranges = << >>
        /\ ~ exported.called

\* The run ended with the error for actualShard = numShards.
C9_Witness ==
    /\ pc = "configError"
    /\ cliFlags.actualShard = {cliFlags.numShards}
    /\ returnedErr = ConfigurationError

\* C10: a search for zero keys runs no iteration, starts no task, derives no
\* key, leaves the sliding index at startIndex and returns an empty result.
C10_ZeroKeys ==
    cliFlags.numKeys = 0 =>
        /\ pc \in {"start", "configError", "loop", "done"}
        /\ NoDerivation
        /\ workers = << >> /\ ranges = << >>
        /\ pc \in {"loop", "done"} => slidingIndex = cliFlags.startIndex
        /\ pc = "done" => generatedKeys = << >> /\ exported.keys = << >>

\* The search for zero keys returned.
C10_Witness ==
    /\ pc = "done"
    /\ cliFlags.numKeys = 0
    /\ cliFlags.numTasks > 0
    /\ exported.called

\* C11: a run with a non-positive number of tasks or task width ends with a
\* ConfigurationError before the search starts; it never enters the loop.
C11_RejectNonPositive ==
    (cliFlags.numTasks <= 0 \/ taskWidth <= 0) =>
        /\ pc \in {"start", "configError"}
        /\ pc = "configError" => returnedErr = ConfigurationError

\* C12: once a task of an iteration has failed, the other tasks of the
\* iteration derive no further index and no further iteration is started.
C12_CancelOnFirstError ==
    [][groupErr # NilErr => derivations' = derivations /\ ranges' = ranges]_vars

\* C13: once the context given to the search is cancelled while the search
\* scans, the search stops: no further index is derived and no further
\* iteration is started.
C13_ExternalCancel ==
    [][ctxDone => derivations' = derivations /\ ranges' = ranges]_vars

NoncesOf(t) == {tokens[t][n] : n \in DOMAIN tokens[t]}

\* C14: groupTokensByIntervals maps every token to the maximal runs of
\* consecutive nonces of its ascending nonce list: the intervals hold only
\* nonces of the list, every nonce lies in exactly one interval, the intervals
\* are increasing and never adjacent, a single nonce n gives [n, n]; on the
\* test's argument the result is the test's expected map.
C14_MaximalRuns ==
    sortedTokens # NotGrouped =>
        /\ DOMAIN sortedTokens = DOMAIN tokens
        /\ \A t \in DOMAIN tokens :
             /\ \A k \in DOMAIN sortedTokens[t] :
                  /\ sortedTokens[t][k].start <= sortedTokens[t][k].end
                  /\ \A n \in sortedTokens[t][k].start .. sortedTokens[t][k].end :
                       n \in NoncesOf(t)
             /\ \A n \in NoncesOf(t) :
                  Cardinality({k \in DOMAIN sortedTokens[t] :
                                  /\ sortedTokens[t][k].start <= n
                                  /\ n <= sortedTokens[t][k].end}) = 1
             /\ \A k \in 1 .. Len(sortedTokens[t]) - 1 :
                  sortedTokens[t][k + 1].start > sortedTokens[t][k].end + 1
             /\ Len(tokens[t]) = 1 =>
                  sortedTokens[t] = << interval(tokens[t][1], tokens[t][1]) >>
        /\ tokens = TestTokens => sortedTokens = TestSortedTokens

\* A grouped argument with a token of two runs and a token of one nonce.
C14_Witness ==
    /\ sortedTokens # NotGrouped
    /\ tokens # TestTokens
    /\ \E t, u \in DOMAIN tokens :
         Len(sortedTokens[t]) = 2 /\ Len(tokens[t]) >= 3 /\ Len(tokens[u]) = 1

RunningWorkers == {w \in DOMAIN workers : workers[w].status = "running"}

\* C15: goroutines run only while the coordinator waits in errs.Wait, all of
\* them on ranges of the current batch; while one of them runs the coordinator
\* does not move: the accumulator, the sliding index, the tasks and the
\* ranges handed out stay as they are.
C15_JoinBarrier ==
    /\ [](/\ pc # "wait" => RunningWorkers = {}
          /\ \A w \in RunningWorkers :
               /\ slidingIndex <= tasks[w].firstIndex
               /\ tasks[w].lastIndex <= newSlidingIndex
               /\ tasks[w].firstIndex <= workers[w].cur
               /\ workers[w].cur <= tasks[w].lastIndex)
    /\ [][RunningWorkers # {} =>
            /\ allGeneratedKeys' = allGeneratedKeys
            /\ slidingIndex' = slidingIndex
            /\ tasks' = tasks
            /\ ranges' = ranges
            /\ pc' = "wait"]_vars

\* In a later iteration one task has stored its keys and another still runs.
C15_Witness ==
    /\ pc = "wait"
    /\ allGeneratedKeys # << >>
    /\ RunningWorkers # {}
    /\ \E w \in DOMAIN workers :
         workers[w].status = "returned" /\ generatedKeysByTask[w] # << >>

Scanning == pc \in {"loop", "wait"}

\* C16: the search scans (loop, wait) until it is done or failed; it becomes
\* done exactly from the loop head with numKeys or more accumulated keys,
\* failed only from a joined iteration with a failed task; done and failed
\* are terminal: nothing changes afterwards.
C16_StateMachine ==
    /\ [](pc \in {"start", "configError", "loop", "wait", "done", "failed"})
    /\ [][(pc \in {"done", "failed"}) => (vars' = vars)]_vars
    /\ [][Scanning => pc' \in {"loop", "wait", "done", "failed"}]_vars
    /\ [][pc # "done" /\ pc' = "done" =>
            pc = "loop" /\ Len(allGeneratedKeys) >= cliFlags.numKeys]_vars
    /\ [][pc = "loop" /\ Len(allGeneratedKeys) >= cliFlags.numKeys =>
            pc' = "done"]_vars
    /\ [][pc # "failed" /\ pc' = "failed" =>
            pc = "wait" /\ FailedWorkers # {} /\ RunningWorkers = {}]_vars

\* The search became done when its second iteration brought the last key.
C16_Witness ==
    /\ pc = "done"
    /\ cliFlags.numKeys > 0
    /\ Len(allGeneratedKeys) = cliFlags.numKeys
    /\ cliFlags.numTasks >= 1
    /\ slidingIndex >= cliFlags.startIndex + 2 * BatchSize

LexLess(a, b) ==
    \/ a.accountIndex < b.accountIndex
    \/ a.accountIndex = b.accountIndex /\ a.addressIndex < b.addressIndex

KeysToSort == {allGeneratedKeys[n] : n \in DOMAIN allGeneratedKeys}

\* C17: on the keys the search sorts, the comparator is the lexicographic
\* order on (accountIndex, addressIndex): irreflexive, asymmetric, transitive,
\* and less(a, b) exactly when a comes before b in that order.
C17_StrictWeakOrder ==
    \A a, b \in KeysToSort :
        /\ ~ less(a, a)
        /\ ~ (less(a, b) /\ less(b, a))
        /\ less(a, b) <=> LexLess(a, b)
        /\ \A c \in KeysToSort : less(a, b) /\ less(b, c) => less(a, c)

WorkerKeysInOrder == Concat([w \in DOMAIN workers |-> workers[w].keys])

\* C18: an iteration runs exactly numTasks goroutines over numTasks slots; a
\* slot holds the keys of its own task once that task has returned and is
\* untouched before; a slot changes only by the return of its own task; the
\* coordinator takes the slots only when no task runs and appends them in
\* task order.
C18_OwnSlots ==
    /\ [](pc = "wait" =>
            /\ Len(workers) = cliFlags.numTasks
            /\ Len(generatedKeysByTask) = cliFlags.numTasks
            /\ \A w \in DOMAIN workers :
                 generatedKeysByTask[w] =
                     IF workers[w].status = "returned"
                     THEN workers[w].keys ELSE NilSlice)
    /\ [][pc = "wait" /\ pc' = "wait" =>
            \A w \in DOMAIN generatedKeysByTask :
                generatedKeysByTask'[w] # generatedKeysByTask[w] =>
                    /\ workers[w].status = "running"
                    /\ workers'[w].status = "returned"]_vars
    /\ [][pc = "wait" /\ pc' = "loop" =>
            /\ RunningWorkers = {}
            /\ allGeneratedKeys' = allGeneratedKeys \o WorkerKeysInOrder]_vars

\* Task 2 has stored its keys while task 1, with a key of its own, still runs.
C18_Witness ==
    /\ pc = "wait"
    /\ Len(workers) = 2
    /\ workers[2].status = "returned" /\ generatedKeysByTask[2] # << >>
    /\ workers[1].status = "running" /\ workers[1].keys # << >>
    /\ generatedKeysByTask[1] = NilSlice

\* The last index the model's cap lets whole batches reach.
ReachableEnd ==
    cliFlags.startIndex
        + ((MaxIndex - cliFlags.startIndex) \div BatchSize) * BatchSize

\* Enough indexes at or after startIndex meet the predicate.
SearchCanFinish ==
    /\ ~ FlagsInconsistent
    /\ cliFlags.numTasks >= 1 /\ taskWidth >= 1
    /\ Len(MatchesIn(cliFlags.startIndex, ReachableEnd)) >= cliFlags.numKeys

\* C19: with at least one task of positive width, no failing task, fair
\* scheduling and enough matching indexes the search eventually is done; a
\* search is never done before numKeys matching indexes were scanned, never
\* failed without a failed task, and while keys are missing the next
\* iteration can always be started: nothing counts iterations or progress.
C19_Termination ==
    /\ (SearchCanFinish /\ [](FailedWorkers = {})) => <>(pc = "done")
    /\ [](pc = "done" =>
            Len(MatchesIn(cliFlags.startIndex, slidingIndex)) >= cliFlags.numKeys)
    /\ [](pc = "failed" => FailedWorkers # {})
    /\ [](/\ pc = "loop"
          /\ Len(allGeneratedKeys) < cliFlags.numKeys
          /\ slidingIndex + BatchSize <= MaxIndex
          => ENABLED StartIteration)

\* A search that was done after three iterations and had rejected indexes.
C19_Witness ==
    /\ pc = "done"
    /\ cliFlags.numTasks >= 1
    /\ slidingIndex >= cliFlags.startIndex + 3 * BatchSize
    /\ Len(allGeneratedKeys) < slidingIndex - cliFlags.startIndex

\* The iterations joined so far, counted by the ranges handed out; a batch of
\* no tasks hands out no range and moves nothing.
CompletedIterations ==
    IF cliFlags.numTasks = 0 THEN 0 ELSE Len(ranges) \div cliFlags.numTasks

IsPrefix(s, t) == Len(s) <= Len(t) /\ SubSeq(t, 1, Len(s)) = s

\* C20: between iterations of a search that has not failed the sliding index
\* is startIndex plus the joined iterations times the batch size and the
\* accumulator holds exactly the matching indexes of [startIndex,
\* slidingIndex); the sliding index never decreases and moves only at the join
\* of an iteration in which every task returned; the accumulator grows only
\* at its end; an iteration is started only while keys are missing.
C20_AccumulatorSliding ==
    /\ [](pc = "loop" =>
            /\ cliFlags.numTasks > 0 => Len(ranges) % cliFlags.numTasks = 0
            /\ slidingIndex = cliFlags.startIndex + CompletedIterations * BatchSize
            /\ allGeneratedKeys = MatchesIn(cliFlags.startIndex, slidingIndex))
    /\ [][(pc \in {"loop", "wait"}) =>
            /\ slidingIndex' >= slidingIndex
            /\ slidingIndex' # slidingIndex =>
                 /\ pc = "wait" /\ pc' = "loop"
                 /\ RunningWorkers = {} /\ FailedWorkers = {}
                 /\ slidingIndex' = slidingIndex + BatchSize]_vars
    /\ [][(pc \in {"loop", "wait"} /\ pc' \in {"loop", "wait"}) =>
            IsPrefix(allGeneratedKeys, allGeneratedKeys')]_vars
    /\ [][(pc = "loop" /\ pc' = "wait") =>
            Len(allGeneratedKeys) < cliFlags.numKeys]_vars

\* Two iterations were joined, some of their indexes were kept and some were
\* rejected, and keys are still missing.
C20_Witness ==
    /\ pc = "loop"
    /\ cliFlags.numTasks >= 1
    /\ CompletedIterations = 2
    /\ allGeneratedKeys # << >>
    /\ Len(allGeneratedKeys) < slidingIndex - cliFlags.startIndex
    /\ Len(allGeneratedKeys) < cliFlags.numKeys

====
